---- MODULE Spec2Model ----
(***************************************************************************)
(* steward: an attestation-gated certificate authority (src/src/main.rs).  *)
(*                                                                         *)
(* The model covers startup (main, State::load, State::generate) and the   *)
(* two routes of the service (GET / = health, POST / = attest).  A worker  *)
(* runs attest in three steps: the validation of the request (lines        *)
(* 203-264, which only read the shared State), the atomic fetch_add on     *)
(* State.ord (line 267), and the construction and signing of the leaf      *)
(* (lines 268-306).  The verifiers (mod ext) and the signing code (mod     *)
(* crypto) are not part of main.rs; they are modelled from the design      *)
(* document.                                                               *)
(***************************************************************************)
EXTENDS Integers, Sequences, FiniteSets, TLC

(* ------------------------------ bounds -------------------------------- *)
\* Width, in bits, of the model's usize (the counter State.ord wraps at
\* 2^UsizeBits exactly as AtomicUsize::fetch_add wraps at 2^64).
UsizeBits == 2
\* Most nodes (attributes, values, extensions) in the attributes of a CSR.
MaxNodes == 4
\* Most serial fetches in a behaviour of Spec, of SpecSerial.
MaxFetch == 1
MaxSerial == 5
\* Workers that handle requests concurrently in SpecConc.
NWorkers == 2

(* ----------------------------- constants ------------------------------ *)
\* Option<T>: None, or Some(x).
None == [some |-> FALSE]
Some(x) == [some |-> TRUE, val |-> x]
PKCS10 == "application/pkcs10"
OK == 200
BAD_REQUEST == 400
UNAUTHORIZED == 401
ISE == 500

ID_EXTENSION_REQ == "id-extensionRequest"
ID_CE_SUBJECT_ALT_NAME == "id-ce-subjectAltName"
KvmOID == "kvm"
SgxOID == "sgx"
SnpOID == "snp"
OtherOID == "1.2.3.4"

Usize == 2 ^ UsizeBits

(* --------------------------- DER, PEM, keys --------------------------- *)
\* A DER document is its type tag and the value it encodes; "junk" stands
\* for bytes that no decoder of the program accepts.
Der(tag, val) == [tag |-> tag, val |-> val]
Junk == [tag |-> "junk"]
Empty == [tag |-> "empty"]

FromDer(tag, bytes) ==
    IF bytes.tag = tag THEN [ok |-> TRUE, val |-> bytes.val] ELSE [ok |-> FALSE]

\* A private key and its public half carry the same name.
IssuerKeys == {"k1", "k2"}
GeneratedKey == "kgen"
SubjectKeys == {"ca", "cb"}

(* ------------------------- issuer certificates ------------------------ *)
\* The fields of an issuer certificate that attest reads.
IssuerCert(iss, sub, iuid, suid, spki) ==
    [tbs_certificate |->
        [issuer |-> iss, subject |-> sub,
         issuer_unique_id |-> iuid, subject_unique_id |-> suid,
         subject_public_key_info |-> spki]]

\* The certificates a crt file may hold: self-signed or issued by a root,
\* with or without an issuer unique-id, certifying either issuer key.
FileCerts ==
    {IssuerCert(iss, "CN=steward", iuid, None, k) :
        iss \in {"CN=steward", "CN=root"}, iuid \in {None, Some("uid")}, k \in IssuerKeys}

\* What rustls_pemfile::read_one returns for a file: the first PEM item.
PemItem(kind, der) == [item |-> kind, der |-> der]
KeyFiles ==
    {PemItem("PKCS8Key", Der("PrivateKeyInfo", "k1")),
     PemItem("PKCS8Key", Junk),
     PemItem("X509Certificate", Junk)}
CrtFiles ==
    {PemItem("X509Certificate", Der("Certificate", c)) : c \in FileCerts}
    \cup {PemItem("X509Certificate", Junk), PemItem("PKCS8Key", Junk)}

\* A DNS name is its sequence of code points; 233 is outside IA5.
SanNames == {<<115, 116>>, <<115, 233>>}
Ia5String_new(name) ==
    IF \A i \in DOMAIN name : name[i] < 128
    THEN [ok |-> TRUE, val |-> name] ELSE [ok |-> FALSE]

Args ==
    [key : {None} \cup {Some(f) : f \in KeyFiles},
     crt : {None} \cup {Some(f) : f \in CrtFiles},
     host : {None, Some("host")},
     san : {None} \cup {Some(n) : n \in SanNames}]

(* ------------------------------ startup ------------------------------- *)
\* State::load: the result is Err or Ok(State).
State_load(san, key, crt) ==
    IF key.item # "PKCS8Key" THEN [ok |-> FALSE]
    ELSE IF crt.item # "X509Certificate" THEN [ok |-> FALSE]
    ELSE IF ~FromDer("PrivateKeyInfo", key.der).ok THEN [ok |-> FALSE]
    ELSE IF ~FromDer("Certificate", crt.der).ok THEN [ok |-> FALSE]
    ELSE [ok |-> TRUE,
          val |-> [key |-> key.der, crt |-> crt.der, ord |-> 1, san |-> san]]

\* State::generate: a fresh key and a certificate for it, self-signed.
State_generate(san, hostname) ==
    LET rdns == "CN=" \o hostname
        tbs == IssuerCert(rdns, rdns, None, None, GeneratedKey)
    IN  [ok |-> TRUE,
         val |-> [key |-> Der("PrivateKeyInfo", GeneratedKey),
                  crt |-> Der("Certificate", tbs), ord |-> 1, san |-> san]]

\* Mutant of main_state: a host name selects State::generate whatever
\* else is set.
main_state_host_first(a) ==
    IF a.host.some
        THEN State_generate(a.san, a.host.val)
    ELSE IF a.key.some /\ a.crt.some
        THEN State_load(a.san, a.key.val, a.crt.val)
    ELSE [ok |-> FALSE]

\* main, lines 170-174: which constructor the options select.
main_state(a) ==
    IF ~a.key.some /\ ~a.crt.some /\ a.host.some
        THEN State_generate(a.san, a.host.val)
    ELSE IF a.key.some /\ a.crt.some
        THEN State_load(a.san, a.key.val, a.crt.val)
    ELSE [ok |-> FALSE]

(* --------------------------- requests (inputs) ------------------------ *)
Ext(oid, value) == [extn_id |-> oid, critical |-> FALSE, extn_value |-> value]

\* The extensions a CSR may request.  The value of an Sgx or Snp extension
\* is evidence that its verifier accepts ("valid") or rejects ("invalid")
\* for this CSR; the value of the others is opaque.
Exts ==
    {Ext(KvmOID, "opaque"), Ext(OtherOID, "opaque")}
    \cup {Ext(oid, v) : oid \in {SgxOID, SnpOID}, v \in {"valid", "invalid"}}

\* An attribute value: the DER of an ExtensionReq, or of something else.
ExtReqValue(exts) == Der("ExtensionReq", exts)

\* The size of a CSR's attributes is the number of nodes of their tree:
\* attributes, values and extensions.  The values of size s:
ValuesOfSize(s) ==
    {ExtReqValue(es) : es \in [1..(s - 1) -> Exts]} \cup (IF s = 1 THEN {Junk} ELSE {})

\* The sequences of values of size s in all.
RECURSIVE ValueSeqs(_)
ValueSeqs(s) ==
    IF s = 0 THEN {<<>>}
    ELSE UNION {{<<x>> \o rest : x \in ValuesOfSize(k), rest \in ValueSeqs(s - k)} :
                k \in 1..s}

Attribute(oid, values) == [oid |-> oid, values |-> values]

\* The attributes of size s; an attribute of another OID is rejected before
\* its values are read and carries none.
AttrsOfSize(s) ==
    {Attribute(ID_EXTENSION_REQ, vs) : vs \in ValueSeqs(s - 1)}
    \cup (IF s = 1 THEN {Attribute("challengePassword", <<>>)} ELSE {})

\* The sequences of attributes of size s in all, and of size up to n.
RECURSIVE AttrSeqs(_)
AttrSeqs(s) ==
    IF s = 0 THEN {<<>>}
    ELSE UNION {{<<x>> \o rest : x \in AttrsOfSize(k), rest \in AttrSeqs(s - k)} :
                k \in 1..s}

AttrSeqsUpTo(n) == UNION {AttrSeqs(s) : s \in 0..n}

\* A PKCS#10 CertReq: the CertReqInfo and the key that made the signature
\* over it.
CertReqInfo(key, attrs) == [public_key |-> key, attributes |-> attrs]
CertReq(key, attrs, signer) ==
    [info |-> CertReqInfo(key, attrs), signature |-> [by |-> signer]]

\* The bodies: the DER of a CertReq, bytes that are none, and no bytes.
BodiesOf(attrSeqs) ==
    {Der("CertReq", CertReq("ca", as, by)) : as \in attrSeqs, by \in SubjectKeys}
    \cup {Junk, Empty}

ContentTypes == {Some(PKCS10), Some("text/plain"), None}
Request(ct, body) == [content_type |-> ct, body |-> body]

\* The requests of Spec: every CSR of key "ca" within the bound, signed by
\* that key and sent under the right content type; the CSRs one node
\* smaller under every content type and signer, and the bodies that are no
\* CSR.
WellFormed(attrSeqs) ==
    {Request(Some(PKCS10), Der("CertReq", CertReq("ca", as, "ca"))) : as \in attrSeqs}
Requests ==
    WellFormed(AttrSeqsUpTo(MaxNodes))
    \cup {Request(ct, b) : ct \in ContentTypes, b \in BodiesOf(AttrSeqsUpTo(MaxNodes - 1))}

(* ------------------------------ verifiers ----------------------------- *)
Ok(v) == [ok |-> TRUE, val |-> v]
Err == [ok |-> FALSE]

\* ExtVerifier::verify returns Ok(copy) or an error; ATT says whether a
\* success of the verifier authorizes the issuance.
Kvm_ATT == TRUE
Sgx_ATT == TRUE
Snp_ATT == TRUE
Kvm_verify(cri, ext, dbg) == IF dbg THEN Ok(FALSE) ELSE Err
Sgx_verify(cri, ext, dbg) == IF ext.extn_value = "valid" THEN Ok(TRUE) ELSE Err
Snp_verify(cri, ext, dbg) == IF ext.extn_value = "valid" THEN Ok(TRUE) ELSE Err

(* ------------------------- attest: validation ------------------------- *)
\* CertReq::verify: the signature over the CertReqInfo verifies under the
\* public key of the CertReqInfo.
CertReq_verify(cr) ==
    IF cr.signature.by = cr.info.public_key THEN Ok(cr.info) ELSE Err

\* Mutant of DecodeAndVerify: the signature is not checked.
DecodeOnly(body) ==
    LET cr == FromDer("CertReq", body)
    IN  IF ~cr.ok THEN Err ELSE Ok(cr.val.info)

\* Lines 212-214: the CertReqInfo of the body, if the body decodes and its
\* signature verifies.
DecodeAndVerify(body) ==
    LET cr == FromDer("CertReq", body)
    IN  IF ~cr.ok THEN Err ELSE CertReq_verify(cr.val)

\* Mutant of DebugMode: the unique identifiers are not compared.
DebugModeNamesOnly(issuer) ==
    LET iss == issuer.tbs_certificate
    IN  iss.issuer = iss.subject

\* Lines 228-230: debug mode.
DebugMode(issuer) ==
    LET iss == issuer.tbs_certificate
        dbg == iss.issuer_unique_id = iss.subject_unique_id
    IN  dbg /\ iss.issuer = iss.subject

\* The state of the loops of lines 217-247: status is OK while no early
\* return was taken.
Acc(status, attested, extensions) ==
    [status |-> status, attested |-> attested, extensions |-> extensions]

\* Mutant of Dispatch: an extension without a verifier is passed over.
DispatchLenient(cri, ext, dbg) ==
    IF ext.extn_id = KvmOID THEN [known |-> TRUE, copy |-> Kvm_verify(cri, ext, dbg), att |-> Kvm_ATT]
    ELSE IF ext.extn_id = SgxOID THEN [known |-> TRUE, copy |-> Sgx_verify(cri, ext, dbg), att |-> Sgx_ATT]
    ELSE IF ext.extn_id = SnpOID THEN [known |-> TRUE, copy |-> Snp_verify(cri, ext, dbg), att |-> Snp_ATT]
    ELSE [known |-> TRUE, copy |-> Ok(FALSE), att |-> FALSE]

\* Lines 233-238: the verifier of the extension and its result.
Dispatch(cri, ext, dbg) ==
    IF ext.extn_id = KvmOID THEN [known |-> TRUE, copy |-> Kvm_verify(cri, ext, dbg), att |-> Kvm_ATT]
    ELSE IF ext.extn_id = SgxOID THEN [known |-> TRUE, copy |-> Sgx_verify(cri, ext, dbg), att |-> Sgx_ATT]
    ELSE IF ext.extn_id = SnpOID THEN [known |-> TRUE, copy |-> Snp_verify(cri, ext, dbg), att |-> Snp_ATT]
    ELSE [known |-> FALSE]

\* Mutant of SaveResults: an extension whose verifier failed is dropped and
\* the request goes on.
SaveResultsLenient(acc, ext, d) ==
    LET attested == acc.attested \/ d.att
    IN  IF ~d.copy.ok THEN Acc(OK, acc.attested, acc.extensions)
        ELSE IF d.copy.val THEN Acc(OK, attested, Append(acc.extensions, ext))
        ELSE Acc(OK, attested, acc.extensions)

\* Mutant of SaveResults: the extension is kept whatever the verifier said
\* about copying it.
SaveResultsCopyAll(acc, ext, d) ==
    LET attested == acc.attested \/ d.att
    IN  IF ~d.copy.ok THEN Acc(BAD_REQUEST, attested, acc.extensions)
        ELSE Acc(OK, attested, Append(acc.extensions, ext))

\* Lines 240-244: attested |= att, then the extension is kept if the
\* verifier said copy, and the request fails if the verifier failed.
SaveResults(acc, ext, d) ==
    LET attested == acc.attested \/ d.att
    IN  IF ~d.copy.ok THEN Acc(BAD_REQUEST, attested, acc.extensions)
        ELSE IF d.copy.val THEN Acc(OK, attested, Append(acc.extensions, ext))
        ELSE Acc(OK, attested, acc.extensions)

\* Lines 226-245: the extensions of one ExtensionReq, in order.
RECURSIVE ForExts(_, _, _, _)
ForExts(exts, cri, dbg, acc) ==
    IF exts = <<>> \/ acc.status # OK THEN acc
    ELSE LET d == Dispatch(cri, Head(exts), dbg)
         IN  IF ~d.known THEN Acc(BAD_REQUEST, acc.attested, acc.extensions)
             ELSE ForExts(Tail(exts), cri, dbg, SaveResults(acc, Head(exts), d))

\* Lines 224-246: the values of one attribute, in order.
RECURSIVE ForValues(_, _, _, _)
ForValues(values, cri, dbg, acc) ==
    IF values = <<>> \/ acc.status # OK THEN acc
    ELSE LET ereq == FromDer("ExtensionReq", Head(values))
         IN  IF ~ereq.ok THEN Acc(BAD_REQUEST, acc.attested, acc.extensions)
             ELSE ForValues(Tail(values), cri, dbg, ForExts(ereq.val, cri, dbg, acc))

\* Mutant of ForAttrs: an attribute of another OID is skipped.
RECURSIVE ForAttrsSkipping(_, _, _, _)
ForAttrsSkipping(attrs, cri, dbg, acc) ==
    IF attrs = <<>> \/ acc.status # OK THEN acc
    ELSE IF Head(attrs).oid # ID_EXTENSION_REQ
        THEN ForAttrsSkipping(Tail(attrs), cri, dbg, acc)
    ELSE ForAttrsSkipping(Tail(attrs), cri, dbg,
                          ForValues(Head(attrs).values, cri, dbg, acc))

\* Lines 219-247: the attributes, in order.
RECURSIVE ForAttrs(_, _, _, _)
ForAttrs(attrs, cri, dbg, acc) ==
    IF attrs = <<>> \/ acc.status # OK THEN acc
    ELSE IF Head(attrs).oid # ID_EXTENSION_REQ
        THEN Acc(BAD_REQUEST, acc.attested, acc.extensions)
    ELSE ForAttrs(Tail(attrs), cri, dbg,
                  ForValues(Head(attrs).values, cri, dbg, acc))

\* Mutant of ValidateExtensions: the check of `attested` is missing.
ValidateExtensionsUnchecked(cri, issuer) ==
    ForAttrs(cri.attributes, cri, DebugMode(issuer), Acc(OK, FALSE, <<>>))

\* Lines 216-250.
ValidateExtensions(cri, issuer) ==
    LET acc == ForAttrs(cri.attributes, cri, DebugMode(issuer), Acc(OK, FALSE, <<>>))
    IN  IF acc.status # OK THEN acc
        ELSE IF ~acc.attested THEN Acc(UNAUTHORIZED, FALSE, acc.extensions)
        ELSE acc

\* Mutant of ContentTypeOk: any content type passes.
ContentTypeAny(ct) == ct.some

\* Lines 206-210: the content type is application/pkcs10.
ContentTypeOk(ct) == ct = Some(PKCS10)

\* Lines 195-250, up to the serial fetch.  The TypedHeader extractor rejects
\* a request without a Content-Type header before the body of attest runs.
\* The result is the status (OK: go on to issue) and the extensions kept.
Validate(st, q) ==
    LET issuer == FromDer("Certificate", st.crt)
        isskey == FromDer("PrivateKeyInfo", st.key)
        cri == DecodeAndVerify(q.body)
    IN  IF ~q.content_type.some THEN Acc(BAD_REQUEST, FALSE, <<>>)
        ELSE IF ~issuer.ok \/ ~isskey.ok THEN Acc(ISE, FALSE, <<>>)
        ELSE IF ~ContentTypeOk(q.content_type) THEN Acc(BAD_REQUEST, FALSE, <<>>)
        ELSE IF ~cri.ok THEN Acc(BAD_REQUEST, FALSE, <<>>)
        ELSE ValidateExtensions(cri.val, issuer.val)

(* -------------------------- attest: issuance --------------------------- *)
\* Mutants of fetch_add: the counter is left as it was; it is moved by two.
fetch_add_stale(ord) == ord
fetch_add_twice(ord) == (ord + 2) % Usize

\* AtomicUsize::fetch_add(1): the new value of the counter; it wraps.
fetch_add(ord) == (ord + 1) % Usize

\* Lines 270-285: the configured subject alt name, as an extension.
SanExtension(name) ==
    [extn_id |-> ID_CE_SUBJECT_ALT_NAME, critical |-> FALSE,
     extn_value |-> Der("SubjectAltName", <<name>>)]

WithSan(st, extensions) ==
    IF ~st.san.some THEN Ok(extensions)
    ELSE IF ~Ia5String_new(st.san.val).ok THEN Err
    ELSE Ok(Append(extensions, SanExtension(Ia5String_new(st.san.val).val)))

\* Mutant of TbsCertificate: the subject key is the issuer's.
TbsCertificateIssuerKey(issuer, serial, cri, extensions) ==
    [version |-> "V3",
     serial_number |-> serial,
     issuer |-> issuer.tbs_certificate.subject,
     subject |-> "CN=uuid.foo.bar.hub.profian.com",
     subject_public_key_info |-> issuer.tbs_certificate.subject_public_key_info,
     issuer_unique_id |-> issuer.tbs_certificate.subject_unique_id,
     subject_unique_id |-> None,
     extensions |-> Some(extensions)]

\* Lines 288-299: the certificate to be signed.
TbsCertificate(issuer, serial, cri, extensions) ==
    [version |-> "V3",
     serial_number |-> serial,
     issuer |-> issuer.tbs_certificate.subject,
     subject |-> "CN=uuid.foo.bar.hub.profian.com",
     subject_public_key_info |-> cri.public_key,
     issuer_unique_id |-> issuer.tbs_certificate.subject_unique_id,
     subject_unique_id |-> None,
     extensions |-> Some(extensions)]

\* TbsCertificate::sign: the certificate, signed with the given key; the
\* operation may fail (signed = FALSE).
Sign(tbs, key, signed) ==
    IF signed THEN Ok([tbs_certificate |-> tbs, signature |-> [by |-> key]]) ELSE Err

\* Mutant of PkiPath: the leaf comes first.
PkiPathLeafFirst(issuer, crt) == <<crt, issuer>>

\* Line 306: the path returned.
PkiPath(issuer, crt) == <<issuer, crt>>

Response(status, body) == [status |-> status, body |-> body]

\* Lines 268-306: the response of a request that fetched `serial`.
IssueLeaf(st, cri, extensions, serial, signed) ==
    LET issuer == FromDer("Certificate", st.crt).val
        isskey == FromDer("PrivateKeyInfo", st.key).val
        exts == WithSan(st, extensions)
        crt == Sign(TbsCertificate(issuer, serial, cri, exts.val), isskey, signed)
    IN  IF ~exts.ok THEN Response(ISE, Empty)
        ELSE IF ~crt.ok THEN Response(ISE, Empty)
        ELSE Response(OK, Der("PkiPath", PkiPath(issuer, crt.val)))

(* ------------------------------- state -------------------------------- *)
VARIABLES
    args,      \* the command line options and the files they name
    phase,     \* "boot", then "serving" or "failed"
    state,     \* the shared State, once main has built it
    wk,        \* the request each worker is handling
    issued,    \* the serial numbers of the leaves issued, in order
    lost,      \* the serial numbers fetched by requests that then failed
    fetches    \* the number of serial fetches so far

vars == <<args, phase, state, wk, issued, lost, fetches>>

Workers == 1..NWorkers

\* nth is the rank of the worker's serial fetch among all fetches (0: none).
Idle == [pc |-> "idle", req |-> None, cri |-> None, extensions |-> <<>>,
         serial |-> 0, nth |-> 0, rsp |-> None]

Init ==
    /\ args \in Args
    /\ phase = "boot"
    /\ state = None
    /\ wk = [w \in Workers |-> Idle]
    /\ issued = <<>>
    /\ lost = <<>>
    /\ fetches = 0

\* main, lines 168-179: build the State and serve, or fail.
Main ==
    /\ phase = "boot"
    /\ LET r == main_state(args)
       IN  IF r.ok THEN state' = Some(r.val) /\ phase' = "serving"
           ELSE state' = state /\ phase' = "failed"
    /\ UNCHANGED <<args, wk, issued, lost, fetches>>

\* GET /: health answers 200 and touches nothing.
Health ==
    /\ phase = "serving"
    /\ UNCHANGED vars

\* The requests that passed validation and have not fetched a serial.
AtFetch == {w \in Workers : wk[w].pc = "serial"}

\* Mutant of Attest: the counter is incremented before the request is
\* validated.
AttestFetchFirst(w, q, cap) ==
    /\ phase = "serving"
    /\ wk[w].pc = "idle"
    /\ fetches + Cardinality(AtFetch) < cap
    /\ LET v == Validate(state.val, q)
           cri == DecodeAndVerify(q.body).val
       IN  wk' = [wk EXCEPT ![w] =
                    IF v.status = OK
                    THEN [pc |-> "serial", req |-> Some(q), cri |-> Some(cri),
                          extensions |-> v.extensions, serial |-> 0,
                          nth |-> 0, rsp |-> None]
                    ELSE [pc |-> "done", req |-> Some(q), cri |-> None,
                          extensions |-> <<>>, serial |-> 0, nth |-> 0,
                          rsp |-> Some(Response(v.status, Empty))]]
    /\ state' = Some([state.val EXCEPT !.ord = fetch_add(state.val.ord)])
    /\ UNCHANGED <<args, phase, issued, lost, fetches>>

\* POST /, lines 195-264: worker w takes request q and validates it.
Attest(w, q, cap) ==
    /\ phase = "serving"
    /\ wk[w].pc = "idle"
    /\ fetches + Cardinality(AtFetch) < cap
    /\ LET v == Validate(state.val, q)
           cri == DecodeAndVerify(q.body).val
       IN  wk' = [wk EXCEPT ![w] =
                    IF v.status = OK
                    THEN [pc |-> "serial", req |-> Some(q), cri |-> Some(cri),
                          extensions |-> v.extensions, serial |-> 0,
                          nth |-> 0, rsp |-> None]
                    ELSE [pc |-> "done", req |-> Some(q), cri |-> None,
                          extensions |-> <<>>, serial |-> 0, nth |-> 0,
                          rsp |-> Some(Response(v.status, Empty))]]
    /\ UNCHANGED <<args, phase, state, issued, lost, fetches>>

\* Line 267: the atomic fetch of the next serial number.
FetchSerial(w) ==
    /\ wk[w].pc = "serial"
    /\ wk' = [wk EXCEPT ![w].pc = "issue", ![w].serial = state.val.ord,
                         ![w].nth = fetches + 1]
    /\ state' = Some([state.val EXCEPT !.ord = fetch_add(state.val.ord)])
    /\ fetches' = fetches + 1
    /\ UNCHANGED <<args, phase, issued, lost>>

\* Lines 268-306: build, sign and encode the leaf.
Issue(w) ==
    /\ wk[w].pc = "issue"
    /\ \E signed \in BOOLEAN :
        LET r == IssueLeaf(state.val, wk[w].cri.val, wk[w].extensions,
                           wk[w].serial, signed)
        IN  /\ wk' = [wk EXCEPT ![w].pc = "done", ![w].rsp = Some(r)]
            /\ issued' = IF r.status = OK THEN Append(issued, wk[w].serial) ELSE issued
            /\ lost' = IF r.status = OK THEN lost ELSE Append(lost, wk[w].serial)
    /\ UNCHANGED <<args, phase, state, fetches>>

\* The response is sent and the request's data is dropped.
Respond(w) ==
    /\ wk[w].pc = "done"
    /\ wk' = [wk EXCEPT ![w] = Idle]
    /\ UNCHANGED <<args, phase, state, issued, lost, fetches>>

\* One worker, every request within the bounds.
Next ==
    \/ Main
    \/ Health
    \/ \E q \in Requests : Attest(1, q, MaxFetch)
    \/ FetchSerial(1)
    \/ Issue(1)
    \/ Respond(1)

Spec == Init /\ [][Next]_vars

\* A few requests, one of each outcome: a Kvm CSR, an Sgx CSR of another
\* key, a CSR without attributes, and a request of the wrong content type.
Csr(key, exts) ==
    Der("CertReq", CertReq(key, <<Attribute(ID_EXTENSION_REQ, <<ExtReqValue(exts)>>)>>, key))
FewRequests ==
    {Request(Some(PKCS10), Csr("ca", <<Ext(KvmOID, "opaque")>>)),
     Request(Some(PKCS10), Csr("cb", <<Ext(SgxOID, "valid")>>)),
     Request(Some(PKCS10), Der("CertReq", CertReq("ca", <<>>, "ca"))),
     Request(Some("text/plain"), Csr("ca", <<Ext(SgxOID, "valid")>>))}

\* One worker handling a long sequence of requests, one after the other.
NextSerial ==
    \/ Main
    \/ Health
    \/ \E q \in FewRequests : Attest(1, q, MaxSerial)
    \/ FetchSerial(1)
    \/ Issue(1)
    \/ Respond(1)

SpecSerial == Init /\ [][NextSerial]_vars

\* NWorkers requests handled concurrently, one by each worker, their steps
\* interleaved in every order; the responses are kept.
NextConc ==
    \/ Main
    \/ Health
    \/ \E w \in Workers, q \in FewRequests : Attest(w, q, NWorkers)
    \/ \E w \in Workers : FetchSerial(w)
    \/ \E w \in Workers : Issue(w)

SpecConc == Init /\ [][NextConc]_vars

(* ----------------------- reading the state ---------------------------- *)
Answered(w) == wk[w].pc = "done"
StatusOf(w) == wk[w].rsp.val.status
Succeeded(w) == Answered(w) /\ StatusOf(w) = OK
PathOf(w) == FromDer("PkiPath", wk[w].rsp.val.body)
LeafOf(w) == PathOf(w).val[2]
RequestOf(w) == wk[w].req.val
CsrOf(w) == FromDer("CertReq", RequestOf(w).body)
IssuerOf == FromDer("Certificate", state.val.crt).val

Range(f) == {f[i] : i \in DOMAIN f}

\* The extensions requested by a CertReqInfo, wherever they stand.
RequestedExts(cri) ==
    UNION {UNION {IF FromDer("ExtensionReq", v).ok
                  THEN Range(FromDer("ExtensionReq", v).val) ELSE {} :
                  v \in Range(a.values)} :
           a \in Range(cri.attributes)}

\* The extension goes to a verifier with ATT = true, which accepts it.
Attests(cri, ext, dbg) ==
    \/ ext.extn_id = KvmOID /\ Kvm_ATT /\ Kvm_verify(cri, ext, dbg).ok
    \/ ext.extn_id = SgxOID /\ Sgx_ATT /\ Sgx_verify(cri, ext, dbg).ok
    \/ ext.extn_id = SnpOID /\ Snp_ATT /\ Snp_verify(cri, ext, dbg).ok

(* ------------------------------ claims -------------------------------- *)

\* C1: the serial numbers of the leaves returned by the successful ones of
\* the requests handled concurrently are pairwise distinct.
C1_DistinctSerials ==
    \A v, w \in Workers :
        (v # w /\ Succeeded(v) /\ Succeeded(w))
            => LeafOf(v).tbs_certificate.serial_number
                 # LeafOf(w).tbs_certificate.serial_number

\* Two requests whose handling overlapped were both answered with a leaf.
C1_Witness ==
    /\ Succeeded(1) /\ Succeeded(2)
    /\ wk[1].nth = 2 /\ wk[2].nth = 1

\* C2: a request is answered 200 with a leaf only if its CSR holds an
\* extension that went to a verifier with ATT = true which accepted it.
C2_NoIssuanceWithoutAttestation ==
    \A w \in Workers :
        Succeeded(w) =>
            /\ PathOf(w).ok
            /\ CsrOf(w).ok
            /\ \E ext \in RequestedExts(CsrOf(w).val.info) :
                   Attests(CsrOf(w).val.info, ext, DebugMode(IssuerOf))

\* A leaf was issued for a CSR with an Sgx extension under an issuer that is
\* not in debug mode.
C2_Witness ==
    /\ Succeeded(1)
    /\ ~DebugMode(IssuerOf)
    /\ \E ext \in RequestedExts(CsrOf(1).val.info) : ext.extn_id = SgxOID

\* C3: the leaf of every successful response is signed by the key whose
\* public half is in the issuer certificate returned with it.
C3_LeafVerifiesUnderIssuerCert ==
    \A w \in Workers :
        Succeeded(w) =>
            LeafOf(w).signature.by
                = PathOf(w).val[1].tbs_certificate.subject_public_key_info

\* C4: each issued leaf's serial is strictly greater than the serial of
\* every leaf issued before it.
C4_SerialsStrictlyIncrease ==
    \A i, j \in DOMAIN issued : i < j => issued[i] < issued[j]

\* No request is between its serial fetch and its response.
Quiescent == \A w \in Workers : wk[w].pc \in {"idle", "done"}

\* C5 as stated: the counter is 1 plus the number of leaves issued so far,
\* and the k-th leaf issued carries serial k.
C5_CounterCountsLeaves ==
    (phase = "serving" /\ Quiescent) =>
        /\ state.val.ord = 1 + Len(issued)
        /\ \A k \in DOMAIN issued : issued[k] = k

\* C5 amended: the counter starts at 1 and is incremented exactly once per
\* serial fetch, modulo 2^UsizeBits, whether or not a leaf follows; the
\* request that makes the k-th fetch gets serial k modulo 2^UsizeBits, and
\* its leaf, if issued, carries it.
C5_CounterCountsFetches ==
    /\ phase = "boot" => state = None
    /\ phase = "serving" =>
        /\ state.val.ord = (1 + fetches) % Usize
        /\ \A w \in Workers :
            /\ wk[w].nth > 0 => wk[w].serial = wk[w].nth % Usize
            /\ Succeeded(w) =>
                 LeafOf(w).tbs_certificate.serial_number = wk[w].nth % Usize

\* A leaf was issued after an earlier request had fetched a serial and
\* failed.
C5_Witness ==
    /\ Succeeded(1)
    /\ wk[1].nth = 2
    /\ issued = <<2>>

\* The CSR decodes, is signed by its own key and has the right content type.
GoodEnvelope(q) ==
    /\ q.content_type = Some(PKCS10)
    /\ FromDer("CertReq", q.body).ok
    /\ FromDer("CertReq", q.body).val.signature.by
         = FromDer("CertReq", q.body).val.info.public_key

\* Every attribute is an extension request and every extension request in
\* it is empty: the CSR requests no extension at all.
NoExtensionAtAll(cri) ==
    \A a \in Range(cri.attributes) :
        /\ a.oid = ID_EXTENSION_REQ
        /\ \A v \in Range(a.values) : v = ExtReqValue(<<>>)

\* C6: the answer is 401 exactly when the content type is right, the body
\* decodes, its signature verifies, every attribute is an extension request
\* and none of them holds an extension; no leaf is issued then.
C6_UnauthorizedIffNoExtension ==
    \A w \in Workers :
        wk[w].req.some =>
            /\ (Answered(w) /\ StatusOf(w) = UNAUTHORIZED)
                 <=> (/\ GoodEnvelope(RequestOf(w))
                      /\ NoExtensionAtAll(CsrOf(w).val.info))
            /\ (Answered(w) /\ StatusOf(w) = UNAUTHORIZED)
                 => (wk[w].rsp.val.body = Empty /\ wk[w].nth = 0)

\* A CSR with two empty extension requests was answered 401.
C6_Witness ==
    /\ Answered(1) /\ StatusOf(1) = UNAUTHORIZED
    /\ Len(CsrOf(1).val.info.attributes) = 2

\* C7: a request whose content type is not application/pkcs10 is answered
\* 400, whatever its body and the State.
C7_WrongContentTypeIs400 ==
    \A w \in Workers :
        (wk[w].req.some /\ RequestOf(w).content_type # Some(PKCS10))
            => (Answered(w) /\ StatusOf(w) = BAD_REQUEST)

\* A CSR that would be issued a leaf was sent as text/plain and answered 400.
C7_Witness ==
    /\ Answered(1) /\ StatusOf(1) = BAD_REQUEST
    /\ RequestOf(1).content_type = Some("text/plain")
    /\ CsrOf(1).ok
    /\ CsrOf(1).val.signature.by = CsrOf(1).val.info.public_key
    /\ \E ext \in RequestedExts(CsrOf(1).val.info) : ext = Ext(SgxOID, "valid")

\* C8: with the right content type, a body that does not decode or whose
\* signature does not verify is answered 400, whatever its extensions.
C8_BadCsrIs400 ==
    \A w \in Workers :
        (/\ wk[w].req.some
         /\ RequestOf(w).content_type = Some(PKCS10)
         /\ \/ ~CsrOf(w).ok
            \/ CsrOf(w).val.signature.by # CsrOf(w).val.info.public_key)
            => (Answered(w) /\ StatusOf(w) = BAD_REQUEST /\ wk[w].nth = 0)

\* A CSR with a bad signature and no extension was answered 400.
C8_Witness ==
    /\ Answered(1) /\ StatusOf(1) = BAD_REQUEST
    /\ RequestOf(1).content_type = Some(PKCS10)
    /\ CsrOf(1).ok
    /\ CsrOf(1).val.signature.by # CsrOf(1).val.info.public_key
    /\ NoExtensionAtAll(CsrOf(1).val.info)

\* The CSR holds an attribute that is no extension request, or requests an
\* extension that has no verifier.
Offending(cri) ==
    \/ \E a \in Range(cri.attributes) : a.oid # ID_EXTENSION_REQ
    \/ \E ext \in RequestedExts(cri) : ext.extn_id \notin {KvmOID, SgxOID, SnpOID}

\* C9: a CSR with an attribute of another OID or an extension of an unknown
\* OID is answered 400 and gets no leaf, wherever the item stands.
C9_OffendingItemIs400 ==
    \A w \in Workers :
        (wk[w].req.some /\ CsrOf(w).ok /\ Offending(CsrOf(w).val.info))
            => (Answered(w) /\ StatusOf(w) = BAD_REQUEST /\ wk[w].nth = 0)

\* The offending item came last, after an extension that was verified with
\* attested = true, and the answer was 400.
C9_Witness ==
    /\ Answered(1) /\ StatusOf(1) = BAD_REQUEST
    /\ GoodEnvelope(RequestOf(1))
    /\ LET attrs == CsrOf(1).val.info.attributes
       IN  \/ /\ Len(attrs) = 1
              /\ attrs[1].values = <<ExtReqValue(<<Ext(SgxOID, "valid"), Ext(OtherOID, "opaque")>>)>>
           \/ /\ Len(attrs) = 2
              /\ attrs[1].values = <<ExtReqValue(<<Ext(SgxOID, "valid")>>)>>
              /\ attrs[2].oid # ID_EXTENSION_REQ

\* C10: the body of every successful response is a PkiPath of exactly two
\* certificates, the configured issuer certificate first and unchanged, the
\* leaf second.
C10_PathIsIssuerThenLeaf ==
    \A w \in Workers :
        Succeeded(w) =>
            /\ PathOf(w).ok
            /\ Len(PathOf(w).val) = 2
            /\ Der("Certificate", PathOf(w).val[1]) = state.val.crt
            /\ args.crt.some => Der("Certificate", PathOf(w).val[1]) = args.crt.val.der
            /\ PathOf(w).val[2].tbs_certificate.serial_number = wk[w].serial

\* A leaf was returned under an issuer certificate loaded from a file.
C10_Witness ==
    /\ Succeeded(1)
    /\ args.crt.some

\* C11: the subject public key of the leaf of a successful response is the
\* public key of the CSR of that same request.
C11_LeafKeyIsCsrKey ==
    \A w \in Workers :
        Succeeded(w) =>
            /\ CsrOf(w).ok
            /\ LeafOf(w).tbs_certificate.subject_public_key_info
                 = CsrOf(w).val.info.public_key

\* Two requests with different keys, handled concurrently, each got a leaf.
C11_Witness ==
    /\ Succeeded(1) /\ Succeeded(2)
    /\ CsrOf(1).val.info.public_key # CsrOf(2).val.info.public_key

\* The issuer certificate names itself as its issuer, by distinguished name
\* and by unique identifier.
SelfSigned(issuer) ==
    /\ issuer.tbs_certificate.issuer = issuer.tbs_certificate.subject
    /\ issuer.tbs_certificate.issuer_unique_id
         = issuer.tbs_certificate.subject_unique_id

\* The CSR requests extensions, all of them well formed, and each of them
\* has the Kvm OID.
KvmOnly(cri) ==
    /\ \A a \in Range(cri.attributes) :
          /\ a.oid = ID_EXTENSION_REQ
          /\ \A v \in Range(a.values) : FromDer("ExtensionReq", v).ok
    /\ RequestedExts(cri) # {}
    /\ \A ext \in RequestedExts(cri) : ext.extn_id = KvmOID

\* The request of worker w passed every check that comes before the fetch
\* of the serial number.
Accepted(w) == wk[w].pc = "serial" \/ wk[w].nth > 0

\* C12 as it stands: debug mode is on exactly when the issuer certificate
\* is self-signed; a CSR that requests only Kvm extensions is issued a
\* certificate exactly when debug mode is on, and with another issuer it is
\* rejected and gets no leaf.
C12_KvmIssuedIffDebug ==
    /\ state.some => (DebugMode(IssuerOf) <=> SelfSigned(IssuerOf))
    /\ \A w \in Workers :
        (/\ Answered(w)
         /\ GoodEnvelope(RequestOf(w))
         /\ KvmOnly(CsrOf(w).val.info))
            => /\ Succeeded(w) <=> SelfSigned(IssuerOf)
               /\ ~SelfSigned(IssuerOf)
                    => (StatusOf(w) = BAD_REQUEST /\ wk[w].nth = 0)

\* C12, amended: debug mode is on exactly when the issuer certificate is
\* self-signed; a CSR that requests only Kvm extensions passes validation
\* and goes on to the serial fetch exactly when debug mode is on (what
\* follows the fetch can still fail with 500); with another issuer it is
\* answered 400 and gets no leaf.
C12_KvmAcceptedIffDebug ==
    /\ state.some => (DebugMode(IssuerOf) <=> SelfSigned(IssuerOf))
    /\ \A w \in Workers :
        (/\ wk[w].req.some
         /\ GoodEnvelope(RequestOf(w))
         /\ KvmOnly(CsrOf(w).val.info))
            => /\ Accepted(w) <=> SelfSigned(IssuerOf)
               /\ Succeeded(w) => SelfSigned(IssuerOf)
               /\ (Answered(w) /\ StatusOf(w) \in {BAD_REQUEST, UNAUTHORIZED})
                    => ~SelfSigned(IssuerOf)
               /\ ~SelfSigned(IssuerOf)
                    => (Answered(w) /\ StatusOf(w) = BAD_REQUEST /\ wk[w].nth = 0)

\* A CSR that requests only a Kvm extension got a leaf from a self-signed
\* issuer.
C12_Witness ==
    /\ Succeeded(1)
    /\ GoodEnvelope(RequestOf(1))
    /\ KvmOnly(CsrOf(1).val.info)
    /\ SelfSigned(IssuerOf)

\* C13: a request that fails with 500 after the serial fetch still consumes
\* its serial: the step in which it fails leaves the counter incremented,
\* and no leaf issued later carries the serial number it fetched.
C13_FailedSerialNeverReused ==
    [][/\ (Len(lost') > Len(lost)) => (state' = state)
       /\ (Len(issued') > Len(issued))
            => (issued'[Len(issued')] \notin Range(lost))]_vars

\* The two combinations of options the claim names.
KeyAndCrt == args.key.some /\ args.crt.some
HostAlone == args.host.some /\ ~args.key.some /\ ~args.crt.some

\* Startup is over, one way or the other.
Started == phase # "boot"

\* The key file holds a PKCS#8 key and the crt file an X.509 certificate,
\* and both parse.
FilesLoad ==
    /\ args.key.val.item = "PKCS8Key"
    /\ args.key.val.der.tag = "PrivateKeyInfo"
    /\ args.crt.val.item = "X509Certificate"
    /\ args.crt.val.der.tag = "Certificate"

RECURSIVE Concat(_)
Concat(seqs) == IF seqs = <<>> THEN <<>> ELSE Head(seqs) \o Concat(Tail(seqs))

\* The extensions a CSR requests, in the order of the CSR: attribute by
\* attribute, value by value (of a CSR whose values all decode).
ExtsInOrder(cri) ==
    Concat([i \in DOMAIN cri.attributes |->
              Concat([j \in DOMAIN cri.attributes[i].values |->
                        FromDer("ExtensionReq", cri.attributes[i].values[j]).val])])

\* The verifier of the extension accepts it and says to copy it.
CopyTrue(cri, ext, dbg) ==
    \/ ext.extn_id = KvmOID /\ Kvm_verify(cri, ext, dbg) = Ok(TRUE)
    \/ ext.extn_id = SgxOID /\ Sgx_verify(cri, ext, dbg) = Ok(TRUE)
    \/ ext.extn_id = SnpOID /\ Snp_verify(cri, ext, dbg) = Ok(TRUE)

\* The extensions the claim says the leaf of worker w must carry.
ExpectedExtensions(w) ==
    LET cri == CsrOf(w).val.info
        Copied(ext) == CopyTrue(cri, ext, SelfSigned(IssuerOf))
        san == IF state.val.san.some
               THEN <<[extn_id |-> ID_CE_SUBJECT_ALT_NAME, critical |-> FALSE,
                       extn_value |-> Der("SubjectAltName", <<state.val.san.val>>)]>>
               ELSE <<>>
    IN  SelectSeq(ExtsInOrder(cri), Copied) \o san

\* C15: the extensions of an issued leaf are the extensions of the CSR whose
\* verifier said to copy them, in the order of the CSR, followed by one
\* non-critical subject alt name exactly when one is configured; a Kvm
\* extension is never among them.
C15_LeafExtensions ==
    \A w \in Workers :
        Succeeded(w) =>
            /\ LeafOf(w).tbs_certificate.extensions = Some(ExpectedExtensions(w))
            /\ \A ext \in Range(LeafOf(w).tbs_certificate.extensions.val) :
                  ext.extn_id # KvmOID

\* A CSR that requested a Kvm extension and then an Sgx extension got a leaf
\* that carries the Sgx extension and then the configured subject alt name.
C15_Witness ==
    /\ Succeeded(1)
    /\ state.val.san.some
    /\ Len(ExtsInOrder(CsrOf(1).val.info)) = 2
    /\ ExtsInOrder(CsrOf(1).val.info)[1].extn_id = KvmOID
    /\ ExtsInOrder(CsrOf(1).val.info)[2].extn_id = SgxOID
    /\ Len(LeafOf(1).tbs_certificate.extensions.val) = 2

\* Every value of every attribute decodes as an ExtensionReq.
ValuesDecode(cri) ==
    \A a \in Range(cri.attributes) :
        \A v \in Range(a.values) : FromDer("ExtensionReq", v).ok

\* The verifier of the extension returns an error.
VerifierFails(cri, ext, dbg) ==
    \/ ext.extn_id = KvmOID /\ ~Kvm_verify(cri, ext, dbg).ok
    \/ ext.extn_id = SgxOID /\ ~Sgx_verify(cri, ext, dbg).ok
    \/ ext.extn_id = SnpOID /\ ~Snp_verify(cri, ext, dbg).ok

\* C16: validation is all or nothing: when the verifier of one extension of
\* the CSR returns an error the answer is 400 and no leaf is issued, even
\* when other extensions, before or after it, verify with attested = true.
C16_OneVerifierErrorIs400 ==
    \A w \in Workers :
        (/\ wk[w].req.some
         /\ CsrOf(w).ok
         /\ \E ext \in RequestedExts(CsrOf(w).val.info) :
               VerifierFails(CsrOf(w).val.info, ext, SelfSigned(IssuerOf)))
            => (Answered(w) /\ StatusOf(w) = BAD_REQUEST /\ wk[w].nth = 0)

\* An extension that verified with attested = true came first, the one whose
\* verifier failed came after it, and the answer was 400.
C16_Witness ==
    /\ Answered(1) /\ StatusOf(1) = BAD_REQUEST
    /\ GoodEnvelope(RequestOf(1))
    /\ ~Offending(CsrOf(1).val.info)
    /\ ValuesDecode(CsrOf(1).val.info)
    /\ Len(ExtsInOrder(CsrOf(1).val.info)) = 2
    /\ Attests(CsrOf(1).val.info, ExtsInOrder(CsrOf(1).val.info)[1],
               SelfSigned(IssuerOf))
    /\ VerifierFails(CsrOf(1).val.info, ExtsInOrder(CsrOf(1).val.info)[2],
                     SelfSigned(IssuerOf))

\* C17: a CSR that is issued a certificate holds at most one attribute of
\* OID id-extensionRequest, and that attribute holds at most one value.
C17_AtMostOneExtensionRequest ==
    \A w \in Workers :
        Succeeded(w) =>
            LET attrs == CsrOf(w).val.info.attributes
                reqs == {i \in DOMAIN attrs : attrs[i].oid = ID_EXTENSION_REQ}
            IN  /\ Cardinality(reqs) <= 1
                /\ \A i \in reqs : Len(attrs[i].values) <= 1

\* C18: a request changes the State only in the step that fetches its
\* serial number, and that step changes the counter alone: the step in
\* which a request is answered 400 or 401 leaves the State as it was, and
\* that request fetched no serial number; the key, the certificate and the
\* subject alt name of the State are the same after every step of serving.
C18_OnlyTheFetchChangesState ==
    [][phase = "serving" =>
        /\ state'.val.key = state.val.key
        /\ state'.val.crt = state.val.crt
        /\ state'.val.san = state.val.san
        /\ (state' # state)
             => \E w \in Workers : wk[w].pc = "serial" /\ wk'[w].pc = "issue"
        /\ \A w \in Workers :
              (/\ wk[w].pc # "done" /\ wk'[w].pc = "done"
               /\ wk'[w].rsp.val.status \in {BAD_REQUEST, UNAUTHORIZED})
                  => (state' = state /\ wk'[w].nth = 0)]_vars

\* After one leaf was issued a request was answered 401, and the counter is
\* where the one fetch left it.
C18_Witness ==
    /\ issued = <<1>> /\ fetches = 1
    /\ Answered(1) /\ StatusOf(1) = UNAUTHORIZED
    /\ state.val.ord = 2

====
